---- MODULE Spec2Model ----
(***************************************************************************)
(* MindFlow: the chat store (src/stores/chatStore.ts), the path resolver   *)
(* and the streaming send handler of the ChatNode component.               *)
(*                                                                         *)
(* Encoding.  A string is a sequence of atoms (string concatenation is     *)
(* \o, the empty string is <<>>).  An optional string is <<>> (undefined   *)
(* or absent) or <<s>>.  Node ids are integers: RootId is 'root', a        *)
(* positive integer t is the id `input-${t}` made from Date.now() = t.     *)
(* NullId is the null parentId / selectedNodeId.                           *)
(***************************************************************************)
EXTENDS Integers, Sequences, FiniteSets, TLC

VARIABLES
  sessions,          \* store: Record<string, ChatSession>
  currentSessionId,  \* store: string | null
  currentSession,    \* store: ChatSession | null
  selectedNodeId,    \* store: string | null
  quotedContent,     \* store: QuotedContent | null (TRUE when set)
  db,                \* server: rows of the sessions table, by id
  modelConfigs,      \* server: rows of the model_configs table, by id
  inflight,          \* persistence requests issued and not yet returned
  now,               \* last value Date.now() returned
  send,              \* the ChatNode component running handleSend
  pathResult,        \* last value returned by getConversationPath
  writeLog,          \* history: session writes issued, in issue order
  lastEvent          \* history: the operation that made the last step

vars == <<sessions, currentSessionId, currentSession, selectedNodeId,
          quotedContent, db, modelConfigs, inflight, now, send, pathResult,
          writeLog, lastEvent>>

----------------------------------------------------------------------------
(* Bounds *)

MaxTime == 3       \* store specification: operations called (each reads Date.now())
MaxPending == 2    \* store specification: persistence requests in flight together
MaxChunks == 2     \* chunks of one stream
MaxDepth == 3      \* path specification: nodes below the root on the chain

----------------------------------------------------------------------------
(* Values *)

RootId == 0
NullId == -1
NullSid == "null"
None == <<>>
Some(s) == <<s>>
\* JS truthiness of an optional string: defined and not ''
Truthy(o) == o # None /\ o[1] # <<>>

DefaultTitle == <<"NewChat">>          \* the title '新对话'
StopMark == <<"[stopped]">>            \* the marker appended on cancellation
TitleLimit == 30                       \* longest title taken whole from the first message

NullSession == [id |-> NullSid, title |-> <<>>, nodes |-> <<>>, rootNodeId |-> NullId]

NoEvent == [op |-> "none", nodeId |-> NullId, ok |-> TRUE, before |-> <<>>]
Event(op, nodeId, ok, before) == [op |-> op, nodeId |-> nodeId, ok |-> ok, before |-> before]

IdleSend == [pc |-> "idle", node |-> NullId, conversationNodeId |-> NullId,
             userMessage |-> <<>>, streamedContent |-> <<>>, streamedThinking |-> <<>>,
             shouldCreateInputNode |-> FALSE, isSending |-> FALSE, awaitRid |-> 0,
             chunks |-> 0, outcome |-> "none", alerts |-> 0, messages |-> <<>>,
             inputIds |-> <<>>]

\* a ChatNode value
MkNode(id, type, content, parentId, userMessage, assistantMessage) ==
  [id |-> id, type |-> type, content |-> content, parentId |-> parentId,
   children |-> <<>>, userMessage |-> userMessage,
   assistantMessage |-> assistantMessage, thinkingContent |-> None]

\* the object spread { ...node, ...updates }
Merge(node, updates) ==
  [f \in DOMAIN node |-> IF f \in DOMAIN updates THEN updates[f] ELSE node[f]]

\* delete obj[k]
Remove(f, k) == [x \in DOMAIN f \ {k} |-> f[x]]

\* { ...obj, [k]: v }
Put(f, k, v) == [x \in DOMAIN f \cup {k} |-> IF x = k THEN v ELSE f[x]]

Range(s) == {s[i] : i \in DOMAIN s}

\* Array.prototype.filter(id => id !== x)
FilterOut(s, x) == SelectSeq(s, LAMBDA e : e # x)

----------------------------------------------------------------------------
(* chatStore.ts: the synchronous part of each operation, as a function of  *)
(* the session it read with get()                                          *)

\* addNode, lines 225-239
addNodeSession(cs, node) ==
  LET withNode == Put(cs.nodes, node.id, node)
      updatedNodes ==
        IF node.parentId # NullId /\ node.parentId \in DOMAIN withNode
        THEN [withNode EXCEPT ![node.parentId].children = Append(@, node.id)]
        ELSE withNode
  IN [cs EXCEPT !.nodes = updatedNodes]

\* updateNode, lines 256-268
updateNodeSession(cs, nodeId, updates) ==
  [cs EXCEPT !.nodes = [@ EXCEPT ![nodeId] = Merge(@, updates)]]

\* deleteNode, lines 305-313: deleteChildren(id) on the map updatedNodes;
\* forEach over the children of the node found under id
RECURSIVE deleteChildren(_, _)
RECURSIVE deleteChildrenEach(_, _, _)
deleteChildrenEach(updatedNodes, children, i) ==
  IF i > Len(children) THEN updatedNodes
  ELSE LET afterRec == deleteChildren(updatedNodes, children[i])
           afterDel == Remove(afterRec, children[i])
       IN deleteChildrenEach(afterDel, children, i + 1)

deleteChildren(updatedNodes, id) ==
  IF id \in DOMAIN updatedNodes
  THEN deleteChildrenEach(updatedNodes, updatedNodes[id].children, 1)
  ELSE updatedNodes

\* deleteNode, line 314: nodeToDelete.children.forEach(childId => deleteChildren(childId))
RECURSIVE deleteEachChild(_, _, _)
deleteEachChild(updatedNodes, children, i) ==
  IF i > Len(children) THEN updatedNodes
  ELSE deleteEachChild(deleteChildren(updatedNodes, children[i]), children, i + 1)

\* deleteNode, lines 290-320
deleteNodeSession(cs, nodeId) ==
  LET nodeToDelete == cs.nodes[nodeId]
      p == nodeToDelete.parentId
      detached ==
        IF p # NullId /\ p \in DOMAIN cs.nodes
        THEN [cs.nodes EXCEPT ![p].children = FilterOut(@, nodeId)]
        ELSE cs.nodes
      withoutNode == Remove(detached, nodeId)
      updatedNodes == deleteEachChild(withoutNode, nodeToDelete.children, 1)
  IN [cs EXCEPT !.nodes = updatedNodes]

\* deleteNode, line 327: nodeToDelete.parentId || currentSession.rootNodeId
deleteNodeSelection(cs, nodeId) ==
  IF cs.nodes[nodeId].parentId # NullId THEN cs.nodes[nodeId].parentId ELSE cs.rootNodeId

\* getConversationPath, lines 357-386: the while loop, path built with unshift
RECURSIVE walkPath(_, _, _)
walkPath(nodes, currentId, path) ==
  IF currentId = NullId \/ currentId \notin DOMAIN nodes THEN path
  ELSE LET node == nodes[currentId]
           userNode == [id |-> node.id, type |-> "user", content |-> node.userMessage[1]]
           assistantNode == [id |-> node.id, type |-> "assistant", content |-> node.assistantMessage[1]]
           plain == [id |-> node.id, type |-> node.type, content |-> node.content]
           path2 ==
             IF node.type = "conversation" /\ Truthy(node.userMessage) /\ Truthy(node.assistantMessage)
             THEN <<assistantNode>> \o (<<userNode>> \o path)
             ELSE IF node.type # "system" /\ node.type # "input"
                  THEN <<plain>> \o path
                  ELSE path
       IN walkPath(nodes, node.parentId, path2)

\* getConversationPath returning the collected path without the final filter
getConversationPath_NoFilter(cs, selected) ==
  IF cs = NullSession \/ selected = NullId THEN <<>>
  ELSE walkPath(cs.nodes, selected, <<>>)

\* getConversationPath, lines 353-389
getConversationPath(cs, selected) ==
  IF cs = NullSession \/ selected = NullId THEN <<>>
  ELSE SelectSeq(walkPath(cs.nodes, selected, <<>>),
                 LAMBDA n : n.type = "user" \/ n.type = "assistant")

----------------------------------------------------------------------------
(* The persistence collaborator: sessionAPI.updateSession is a PUT whose   *)
(* request travels to the server, is applied there, and whose response     *)
(* travels back; the caller's continuation runs when the response arrives. *)

\* server/database.ts updateSession, lines 156-170: UPDATE ... WHERE id = ?
\* SET title, nodes, rootNodeId, updatedAt; the other columns keep their value
dbUpdateSession(rows, session) ==
  IF session.id \in DOMAIN rows
  THEN [rows EXCEPT ![session.id] =
          [f \in DOMAIN rows[session.id] |->
             IF f \in {"title", "nodes", "rootNodeId", "updatedAt"}
             THEN session[f] ELSE rows[session.id][f]]]
  ELSE rows

\* one call of sessionAPI.updateSession(session) with what its caller keeps
\* in scope for the continuation: the sessions map and currentSessionId it
\* read, the session it read (before) and the selection it will set (sel)
Request(pending, op, session, before, snapSessions, sid, nodeId, sel) ==
  [rid |-> CHOOSE r \in 1..(Cardinality(pending) + 1) : \A q \in pending : q.rid # r,
   op |-> op, session |-> session, before |-> before, sessions |-> snapSessions,
   sid |-> sid, nodeId |-> nodeId, sel |-> sel, status |-> "sent",
   response |-> <<>>]

\* history: one issued session write; phase is the phase of the generation
\* that was running when the write was issued
LogEntry(phase, req) ==
  [op |-> req.op, phase |-> phase, nodeId |-> req.nodeId, session |-> req.session]

----------------------------------------------------------------------------
(* chatStore.ts createSession, lines 86-110: the session a fresh start     *)
(* creates (initSession on an empty database)                              *)

newSession(sid) ==
  [id |-> sid, title |-> DefaultTitle,
   nodes |-> Put(<<>>, RootId, MkNode(RootId, "input", <<>>, NullId, None, None)),
   rootNodeId |-> RootId]

----------------------------------------------------------------------------
(* The store as a value, so that a handler that calls several store        *)
(* operations in one synchronous run is one step.  phase is "none" outside *)
(* a generation; writes are logged only during and after a generation.     *)

Store ==
  [sessions |-> sessions, currentSessionId |-> currentSessionId,
   currentSession |-> currentSession, selectedNodeId |-> selectedNodeId,
   quotedContent |-> quotedContent, inflight |-> inflight,
   writeLog |-> writeLog, phase |-> "none", clock |-> now]

SetStore(st) ==
  /\ sessions' = st.sessions
  /\ currentSessionId' = st.currentSessionId
  /\ currentSession' = st.currentSession
  /\ selectedNodeId' = st.selectedNodeId
  /\ quotedContent' = st.quotedContent
  /\ inflight' = st.inflight
  /\ writeLog' = st.writeLog

\* updatedAt: Date.now(), for a session that carries its timestamps
Touch(session, t) ==
  IF "updatedAt" \in DOMAIN session THEN [session EXCEPT !.updatedAt = t] ELSE session

\* sessionAPI.updateSession(req.session) is called: the request leaves
Issue(st, req) ==
  [st EXCEPT !.inflight = @ \cup {req},
             !.writeLog = IF st.phase = "none" THEN @
                          ELSE Append(@, LogEntry(st.phase, req))]

\* addNode, lines 221-250, up to the await
addNode(st, node) ==
  IF st.currentSession = NullSession \/ st.currentSessionId = NullSid THEN st
  ELSE Issue(st, Request(st.inflight, "addNode",
                         Touch(addNodeSession(st.currentSession, node), st.clock),
                         st.currentSession, st.sessions, st.currentSessionId,
                         node.id, NullId))

\* updateNode, lines 252-284, up to the await
updateNode(st, nodeId, updates, saveToDb) ==
  IF st.currentSession = NullSession \/ st.currentSessionId = NullSid
     \/ nodeId \notin DOMAIN st.currentSession.nodes
  THEN st
  ELSE LET updatedSession ==
             Touch(updateNodeSession(st.currentSession, nodeId, updates), st.clock)
           local == [st EXCEPT !.sessions = Put(@, st.currentSessionId, updatedSession),
                               !.currentSession = updatedSession]
       IN IF saveToDb
          THEN Issue(local, Request(st.inflight, "updateNode", updatedSession,
                                    st.currentSession, st.sessions,
                                    st.currentSessionId, nodeId, NullId))
          ELSE local

\* deleteNode, lines 286-332, up to the await
deleteNode(st, nodeId) ==
  IF st.currentSession = NullSession \/ st.currentSessionId = NullSid
     \/ nodeId \notin DOMAIN st.currentSession.nodes
  THEN st
  ELSE Issue(st, Request(st.inflight, "deleteNode",
                         Touch(deleteNodeSession(st.currentSession, nodeId), st.clock),
                         st.currentSession, st.sessions, st.currentSessionId,
                         nodeId, deleteNodeSelection(st.currentSession, nodeId)))

\* updateSessionTitle, lines 170-188, up to the await
updateSessionTitle(st, sessionId, title) ==
  IF sessionId \notin DOMAIN st.sessions THEN st
  ELSE Issue(st, Request(st.inflight, "updateSessionTitle",
                         Touch([st.sessions[sessionId] EXCEPT !.title = title], st.clock),
                         st.sessions[sessionId], st.sessions, st.currentSessionId,
                         NullId, NullId))

\* selectNode, lines 345-347
selectNode(st, nodeId) == [st EXCEPT !.selectedNodeId = nodeId]

\* setQuotedContent, lines 349-351
setQuotedContent(st, content) == [st EXCEPT !.quotedContent = content]

\* what the store does when the awaited call of request r returns: the
\* set(...) after the await of addNode (243-246), rearrangeNodes (416-419),
\* deleteNode (324-328), updateSessionTitle (178-183) and
\* updateSessionDefaultModel (198-203); updateNode has nothing after its await;
\* a failed call only logs (console.error)
Continuation(st, r, ok) ==
  IF ~ok THEN st
  ELSE IF r.op = "addNode" \/ r.op = "rearrangeNodes"
  THEN [st EXCEPT !.sessions = Put(r.sessions, r.sid, r.session),
                  !.currentSession = r.session]
  ELSE IF r.op = "deleteNode"
  THEN [st EXCEPT !.sessions = Put(r.sessions, r.sid, r.session),
                  !.currentSession = r.session,
                  !.selectedNodeId = r.sel]
  ELSE IF r.op = "updateSessionTitle" \/ r.op = "updateSessionDefaultModel"
  THEN [st EXCEPT !.sessions = Put(r.sessions, r.session.id, r.session),
                  !.currentSession = IF r.sid = r.session.id THEN r.session
                                     ELSE st.currentSession]
  ELSE st

----------------------------------------------------------------------------
(* The persistence calls in flight, common to every specification *)

\* the server applies a PUT /api/sessions/:id (part_001 lines 66-80)
ServerApply(r) ==
  /\ r.status = "sent"
  /\ db' = dbUpdateSession(db, r.session)
  /\ inflight' = (inflight \ {r}) \cup {[r EXCEPT !.status = "applied"]}
  /\ lastEvent' = Event("serverApply", r.nodeId, TRUE, <<>>)
  /\ UNCHANGED <<modelConfigs, sessions, currentSessionId, currentSession, selectedNodeId,
                 quotedContent, now, send, pathResult, writeLog>>

\* the store with request r returned
Returned(r, ok) == Continuation([Store EXCEPT !.inflight = @ \ {r}], r, ok)

----------------------------------------------------------------------------
(* Specification StoreSpec: the node operations of the store on one        *)
(* session, called in any order, with their persistence calls in flight.   *)

Sid1 == "s1"

StoreInit ==
  /\ sessions = Put(<<>>, Sid1, newSession(Sid1))
  /\ currentSessionId = Sid1
  /\ currentSession = newSession(Sid1)
  /\ selectedNodeId = RootId
  /\ quotedContent = FALSE
  /\ db = Put(<<>>, Sid1, newSession(Sid1))
  /\ inflight = {}
  /\ now = 0
  /\ send = IdleSend
  /\ pathResult = <<>>
  /\ writeLog = <<>>
  /\ modelConfigs = <<>>
  /\ lastEvent = NoEvent

\* the updates the callers of updateNode pass (part_006 lines 314-322, 413-415)
NodeUpdates(u) ==
  IF u = "convert"
  THEN [type |-> "conversation", content |-> <<"Q">>, userMessage |-> Some(<<"Q">>),
        assistantMessage |-> None]
  ELSE [assistantMessage |-> Some(<<"R">>)]

\* a caller adds a new input node under an existing node and selects it
\* (createBranchNode, part_006 lines 253-268: addNode is not awaited); the
\* id is fresh
StoreAddNode ==
  /\ now < MaxTime
  /\ Cardinality(inflight) < MaxPending
  /\ \E parent \in DOMAIN currentSession.nodes :
       /\ SetStore(selectNode(addNode(Store, MkNode(now + 1, "input", <<>>, parent,
                                                   None, None)),
                              now + 1))
       /\ lastEvent' = Event("addNode", now + 1, TRUE, <<>>)
  /\ now' = now + 1
  /\ UNCHANGED <<modelConfigs, db, send, pathResult>>

StoreUpdateNode ==
  /\ now < MaxTime
  /\ now' = now + 1
  /\ \E nodeId \in 0..MaxTime, u \in {"convert", "answer"}, saveToDb \in BOOLEAN :
       /\ saveToDb => Cardinality(inflight) < MaxPending
       /\ SetStore(updateNode(Store, nodeId, NodeUpdates(u), saveToDb))
       /\ lastEvent' = Event("updateNode", nodeId, nodeId \in DOMAIN currentSession.nodes, <<>>)
  /\ UNCHANGED <<modelConfigs, db, send, pathResult>>

\* the root is never offered for deletion (part_006 line 273, node.id !== 'root')
StoreDeleteNode ==
  /\ now < MaxTime
  /\ now' = now + 1
  /\ Cardinality(inflight) < MaxPending
  /\ \E nodeId \in 1..MaxTime :
       /\ SetStore(deleteNode(Store, nodeId))
       /\ lastEvent' = Event("deleteNode", nodeId, nodeId \in DOMAIN currentSession.nodes, <<>>)
  /\ UNCHANGED <<modelConfigs, db, send, pathResult>>

StoreSelectNode ==
  /\ \E nodeId \in DOMAIN currentSession.nodes :
       /\ nodeId # selectedNodeId
       /\ SetStore(selectNode(Store, nodeId))
       /\ lastEvent' = Event("selectNode", nodeId, TRUE, <<>>)
  /\ UNCHANGED <<modelConfigs, db, now, send, pathResult>>

StoreServerApply == \E r \in inflight : ServerApply(r)

\* the response of an applied request arrives
StoreDeliver ==
  \E r \in inflight :
    /\ r.status = "applied"
    /\ SetStore(Returned(r, TRUE))
    /\ lastEvent' = Event(r.op \o ".done", r.nodeId, TRUE, r.before.nodes)
    /\ UNCHANGED <<modelConfigs, db, now, send, pathResult>>

\* the request fails (network error, server error)
StoreReject ==
  \E r \in inflight :
    /\ r.status = "sent"
    /\ SetStore(Returned(r, FALSE))
    /\ lastEvent' = Event(r.op \o ".done", r.nodeId, FALSE, r.before.nodes)
    /\ UNCHANGED <<modelConfigs, db, now, send, pathResult>>

StoreNext ==
  \/ StoreAddNode
  \/ StoreUpdateNode
  \/ StoreDeleteNode
  \/ StoreSelectNode
  \/ StoreServerApply
  \/ StoreDeliver
  \/ StoreReject

StoreSpec == StoreInit /\ [][StoreNext]_vars

----------------------------------------------------------------------------
(* Tree predicates *)

\* ids reachable from x through children lists, x included
RECURSIVE SubtreeIds(_, _)
SubtreeIds(nodes, x) ==
  IF x \notin DOMAIN nodes THEN {x}
  ELSE {x} \cup UNION {SubtreeIds(nodes, c) : c \in Range(nodes[x].children)}

\* C1: after deleteNode(X) has succeeded, X and every node reachable from X
\* through children lists are absent from the node map, and no remaining
\* node names a deleted id as its parent or among its children
C1_SubtreeDeletion ==
  (lastEvent.op = "deleteNode.done" /\ lastEvent.ok) =>
    LET deleted == SubtreeIds(lastEvent.before, lastEvent.nodeId)
        nodes == currentSession.nodes
    IN /\ deleted \cap DOMAIN nodes = {}
       /\ \A n \in DOMAIN nodes :
            /\ nodes[n].parentId \notin deleted
            /\ Range(nodes[n].children) \cap deleted = {}

\* C2: parent/child symmetry of the current session
C2_ParentChildSymmetry ==
  LET nodes == currentSession.nodes
  IN \A n \in DOMAIN nodes :
       /\ nodes[n].parentId # NullId =>
            /\ nodes[n].parentId \in DOMAIN nodes
            /\ n \in Range(nodes[nodes[n].parentId].children)
       /\ \A c \in Range(nodes[n].children) :
            c \in DOMAIN nodes /\ nodes[c].parentId = n

\* C3: exactly one node has no parent, it is the root, every node is
\* reachable from it through children lists (which, the parent of a node
\* being unique, also excludes a cycle of parent links)
C3_SingleRootReachable ==
  LET nodes == currentSession.nodes
  IN /\ {n \in DOMAIN nodes : nodes[n].parentId = NullId} = {currentSession.rootNodeId}
     /\ DOMAIN nodes \subseteq SubtreeIds(nodes, currentSession.rootNodeId)

----------------------------------------------------------------------------
(* Specification PathSpec: getConversationPath on the sessions that can be *)
(* loaded from the database: a chain root -> 1 -> ... -> MaxDepth whose    *)
(* nodes are of every type of ChatNode (types/index.ts line 12), the       *)
(* conversation nodes with their assistant payload absent, empty or set.   *)

NodeKinds == {"input", "user", "assistant", "system", "loading",
              "conversation", "conversation.pending", "conversation.empty"}

\* the node of a given kind with id i on the chain
KindNode(i, kind) ==
  LET base == IF kind = "conversation"
              THEN MkNode(i, "conversation", <<"Q">>, i - 1, Some(<<"Q">>), Some(<<"R">>))
              ELSE IF kind = "conversation.pending"
              THEN MkNode(i, "conversation", <<"Q">>, i - 1, Some(<<"Q">>), None)
              ELSE IF kind = "conversation.empty"
              THEN MkNode(i, "conversation", <<"Q">>, i - 1, Some(<<"Q">>), Some(<<>>))
              ELSE IF kind = "input" \/ kind = "loading"
              THEN MkNode(i, kind, <<>>, i - 1, None, None)
              ELSE MkNode(i, kind, <<"A">>, i - 1, None, None)
  IN [base EXCEPT !.children = IF i < MaxDepth THEN <<i + 1>> ELSE <<>>]

ChainSession(kinds) ==
  [id |-> Sid1, title |-> <<"T">>,
   nodes |-> [i \in 0..MaxDepth |-> KindNode(i, kinds[i])],
   rootNodeId |-> RootId]

PathInit ==
  /\ \E kinds \in [0..MaxDepth -> NodeKinds] :
       /\ sessions = Put(<<>>, Sid1, ChainSession(kinds))
       /\ currentSession = ChainSession(kinds)
       /\ db = Put(<<>>, Sid1, ChainSession(kinds))
  /\ currentSessionId = Sid1
  /\ selectedNodeId = RootId
  /\ quotedContent = FALSE
  /\ inflight = {}
  /\ now = 0
  /\ send = IdleSend
  /\ pathResult = <<>>
  /\ writeLog = <<>>
  /\ modelConfigs = <<>>
  /\ lastEvent = NoEvent

\* a caller resolves the path of the selected node (part_006 line 358)
PathResolve ==
  /\ pathResult' = getConversationPath(currentSession, selectedNodeId)
  /\ lastEvent' = Event("getConversationPath", selectedNodeId, TRUE, <<>>)
  /\ UNCHANGED <<modelConfigs, sessions, currentSessionId, currentSession, selectedNodeId,
                 quotedContent, db, inflight, now, send, writeLog>>

PathNext ==
  \/ StoreSelectNode
  \/ PathResolve

PathSpec == PathInit /\ [][PathNext]_vars

\* the selected node and its ancestors, following parent links
RECURSIVE ParentChain(_, _)
ParentChain(nodes, id) ==
  IF id = NullId \/ id \notin DOMAIN nodes THEN {}
  ELSE {id} \cup ParentChain(nodes, nodes[id].parentId)

\* number of parent links from id up to the root
RECURSIVE DepthOf(_, _)
DepthOf(nodes, id) ==
  IF id \notin DOMAIN nodes \/ nodes[id].parentId = NullId THEN 0
  ELSE 1 + DepthOf(nodes, nodes[id].parentId)

IsComplete(node) ==
  node.type = "conversation" /\ Truthy(node.userMessage) /\ Truthy(node.assistantMessage)

\* C4: the path is in root-to-target order, a conversation node carrying
\* both payloads contributes its user entry immediately followed by its
\* assistant entry; for root -> A(user) -> B(conversation Q, R) -> C(input)
\* with C selected the path is exactly <<user A, user Q, assistant R>>
C4_PathOrder ==
  lastEvent.op = "getConversationPath" =>
    LET nodes == currentSession.nodes
        path == pathResult
    IN /\ \A i, j \in DOMAIN path :
            i < j => DepthOf(nodes, path[i].id) <= DepthOf(nodes, path[j].id)
       /\ \A i \in DOMAIN path :
            (nodes[path[i].id].type = "conversation" /\ path[i].type = "user") =>
              /\ i < Len(path)
              /\ path[i + 1] = [id |-> path[i].id, type |-> "assistant",
                                content |-> nodes[path[i].id].assistantMessage[1]]
       /\ ( /\ selectedNodeId = 3
            /\ nodes[0].type \in {"input", "system"}
            /\ nodes[1].type = "user"
            /\ IsComplete(nodes[2])
            /\ nodes[3].type = "input" ) =>
              path = << [id |-> 1, type |-> "user", content |-> nodes[1].content],
                        [id |-> 2, type |-> "user", content |-> <<"Q">>],
                        [id |-> 2, type |-> "assistant", content |-> <<"R">>] >>

\* C5: no entry of the path comes from a system, input or loading node or
\* from a conversation node without a non-empty assistantMessage; every
\* user node, assistant node and complete conversation node on the parent
\* chain of the selected node contributes (a conversation node both turns)
C5_PathMembers ==
  lastEvent.op = "getConversationPath" =>
    LET nodes == currentSession.nodes
        path == pathResult
        chain == ParentChain(nodes, selectedNodeId)
        entriesOf(n) == {path[i].type : i \in {k \in DOMAIN path : path[k].id = n}}
    IN /\ \A i \in DOMAIN path :
            /\ path[i].id \in chain
            /\ nodes[path[i].id].type \notin {"system", "input", "loading"}
            /\ nodes[path[i].id].type = "conversation" => IsComplete(nodes[path[i].id])
       /\ \A n \in chain :
            /\ nodes[n].type \in {"user", "assistant"} => entriesOf(n) = {nodes[n].type}
            /\ IsComplete(nodes[n]) => entriesOf(n) = {"user", "assistant"}
            /\ (nodes[n].type = "conversation" /\ ~IsComplete(nodes[n])) => entriesOf(n) = {}

\* a path was resolved along a chain holding a pending conversation node,
\* a complete one, a user node and an elided node
C5_Witness ==
  /\ lastEvent.op = "getConversationPath"
  /\ pathResult # <<>>
  /\ LET nodes == currentSession.nodes
         chain == ParentChain(nodes, selectedNodeId)
     IN /\ \E n \in chain : nodes[n].type = "conversation" /\ ~Truthy(nodes[n].assistantMessage)
        /\ \E n \in chain : IsComplete(nodes[n])
        /\ \E n \in chain : nodes[n].type = "user"
        /\ \E n \in chain : nodes[n].type \in {"system", "input", "loading"}

----------------------------------------------------------------------------
(* The ChatNode component's handleSend (part_006 lines 284-577).  A string *)
(* is a sequence of characters.  The handler runs synchronously up to each *)
(* await; the awaits are the stream (sendAIMessage) and the final          *)
(* updateNode.  sd is the handler's local state, st the store.             *)

\* lines 314-322: the updates that turn the input node into a conversation node
ConvertUpdates(userMessage) ==
  [type |-> "conversation", content |-> userMessage,
   userMessage |-> Some(userMessage), assistantMessage |-> None]

\* line 326: the automatic title
autoTitle(userMessage) ==
  IF Len(userMessage) > TitleLimit
  THEN SubSeq(userMessage, 1, TitleLimit) \o <<".", ".", ".">>
  ELSE userMessage

\* lines 253-265 and 481-493, 556-568: a new input node under parent
NewInputNode(id, parent) == MkNode(id, "input", <<>>, parent, None, None)

\* s || undefined
OrUndefined(s) == IF s = <<>> THEN None ELSE Some(s)

\* lines 359-362 and 397: the messages sent, the resolved path and the new message
HistoryOf(st, userMessage) ==
  LET path == getConversationPath(st.currentSession, st.selectedNodeId)
  IN [i \in 1..Len(path) |-> [role |-> path[i].type, content |-> path[i].content]]
     \o << [role |-> "user", content |-> userMessage] >>

\* lines 308-328 and 355-397: from the conversion of the node to the call of
\* sendAIMessage; neither updateNode nor updateSessionTitle is awaited
sendBegin(st, sd, node, userMessage) ==
  LET st0 == [st EXCEPT !.phase = "start"]
      st1 == updateNode(st0, node, ConvertUpdates(userMessage), TRUE)
      st2 == IF st.currentSession.title = DefaultTitle /\ node = RootId
             THEN updateSessionTitle(st1, st.currentSession.id, autoTitle(userMessage))
             ELSE st1
      st3 == setQuotedContent(st2, FALSE)
  IN [st |-> st3,
      sd |-> [sd EXCEPT !.node = node, !.conversationNodeId = node,
                        !.userMessage = userMessage, !.isSending = TRUE,
                        !.messages = HistoryOf(st3, userMessage)]]

\* a chunk callback that saves every chunk to the database
ChunkSaveToDb_Always == TRUE

\* lines 400-417: the chunk callback does not save to the database
ChunkSaveToDb == FALSE

\* lines 400-417: the chunk callback
onChunk(st, sd, type, chunk) ==
  LET st0 == [st EXCEPT !.phase = "streaming"]
  IN IF type = "thinking"
     THEN [st |-> updateNode(st0, sd.conversationNodeId,
                             [thinkingContent |-> Some(sd.streamedThinking \o chunk)],
                             ChunkSaveToDb),
           sd |-> [sd EXCEPT !.streamedThinking = @ \o chunk, !.chunks = @ + 1]]
     ELSE [st |-> updateNode(st0, sd.conversationNodeId,
                             [assistantMessage |-> Some(sd.streamedContent \o chunk)],
                             ChunkSaveToDb),
           sd |-> [sd EXCEPT !.streamedContent = @ \o chunk, !.chunks = @ + 1]]

\* the request the last store operation issued, if it issued one
IssuedRid(before, after) ==
  IF after.inflight = before.inflight THEN 0
  ELSE (CHOOSE r \in after.inflight \ before.inflight : TRUE).rid

\* lines 419-424: the stream is over, the final update is saved and awaited
sendFinalUpdate(st, sd) ==
  LET st0 == [st EXCEPT !.phase = "ending"]
      st1 == updateNode(st0, sd.conversationNodeId,
                        [assistantMessage |-> Some(sd.streamedContent),
                         thinkingContent |-> OrUndefined(sd.streamedThinking)], TRUE)
  IN [st |-> st1,
      sd |-> [sd EXCEPT !.pc = "awaitFinal", !.awaitRid = IssuedRid(st0, st1)]]

\* line 502: the partial content is saved only if some content has arrived
StopSaves(sd) == sd.conversationNodeId # NullId /\ sd.streamedContent # <<>>

\* lines 519-576: finally; a new input node if one is due, sending is over
sendFinally(st, sd, id, outcome) ==
  LET due == sd.shouldCreateInputNode /\ sd.conversationNodeId # NullId
      st1 == IF due
             THEN selectNode(addNode(st, NewInputNode(id, sd.conversationNodeId)), id)
             ELSE st
  IN [st |-> st1,
      sd |-> [sd EXCEPT !.pc = "done", !.outcome = outcome, !.isSending = FALSE,
                        !.awaitRid = 0,
                        !.inputIds = IF due THEN Append(@, id) ELSE @]]

\* lines 426-496 and finally: after the awaited final update; the try block
\* adds an input node (id1) and the finally block adds one again (id2)
sendAfterFinal(st, sd, id1, id2) ==
  LET st0 == [st EXCEPT !.phase = "ending"]
      st1 == selectNode(addNode(st0, NewInputNode(id1, sd.conversationNodeId)), id1)
      sd1 == [sd EXCEPT !.shouldCreateInputNode = TRUE, !.inputIds = Append(@, id1)]
  IN sendFinally(st1, sd1, id2, "completed")

\* lines 497-514: catch of an AbortError, up to the awaited update
sendAbort(st, sd, id) ==
  LET st0 == [st EXCEPT !.phase = "ending"]
      st1 == updateNode(st0, sd.conversationNodeId,
                        [assistantMessage |-> Some(sd.streamedContent \o StopMark),
                         thinkingContent |-> OrUndefined(sd.streamedThinking)], TRUE)
  IN IF StopSaves(sd)
     THEN IF IssuedRid(st0, st1) = 0
          THEN sendFinally(st1, [sd EXCEPT !.shouldCreateInputNode = TRUE], id, "cancelled")
          ELSE [st |-> st1,
                sd |-> [sd EXCEPT !.pc = "awaitStop", !.awaitRid = IssuedRid(st0, st1)]]
     ELSE sendFinally(st0, sd, id, "cancelled")

\* lines 509-510 and finally: after the awaited update of a cancelled stream
sendAfterStop(st, sd, id) ==
  sendFinally([st EXCEPT !.phase = "ending"],
              [sd EXCEPT !.shouldCreateInputNode = TRUE], id, "cancelled")

\* a catch that treats a failure like a cancellation: no alert, a new input node
sendFail_AsCancelled(st, sd, id) ==
  sendFinally([st EXCEPT !.phase = "ending"],
              [sd EXCEPT !.shouldCreateInputNode = TRUE], id + 1, "failed")

\* lines 515-518: catch of any other error: the failure is shown (alert)
sendFail(st, sd, id) ==
  sendFinally([st EXCEPT !.phase = "ending"],
              [sd EXCEPT !.alerts = @ + 1], id, "failed")

----------------------------------------------------------------------------
(* Specification SendSpec: one generation sent from the input node of a    *)
(* session, with every order in which its persistence calls can be applied *)
(* by the server and return.  The persistence calls succeed.               *)

\* a session whose root has been answered and has a new input child
ContinuedSession ==
  [id |-> Sid1, title |-> <<"H", "i">>,
   nodes |-> (0 :> [MkNode(RootId, "conversation", <<"H", "i">>, NullId,
                           Some(<<"H", "i">>), Some(<<"o", "k">>))
                      EXCEPT !.children = <<1>>]
              @@ 1 :> NewInputNode(1, RootId)),
   rootNodeId |-> RootId]

UserMessages == {<<"H", "i">>}
ChunkTexts == {<<"H", "e", "l">>, <<"l", "o">>}

SendInit ==
  /\ \E session \in {newSession(Sid1), ContinuedSession} :
       /\ sessions = Put(<<>>, Sid1, session)
       /\ currentSession = session
       /\ db = Put(<<>>, Sid1, session)
       /\ selectedNodeId = IF session = ContinuedSession THEN 1 ELSE RootId
  /\ currentSessionId = Sid1
  /\ quotedContent = FALSE
  /\ inflight = {}
  /\ now = 1
  /\ send = IdleSend
  /\ pathResult = <<>>
  /\ writeLog = <<>>
  /\ modelConfigs = <<>>
  /\ lastEvent = NoEvent

SetSend(r) == SetStore(r.st) /\ send' = r.sd

\* the user sends a message from an input node; a provider without its API
\* key throws before any request is made (ai.ts lines 24-26)
SendStart ==
  /\ send.pc = "idle"
  /\ \E node \in DOMAIN currentSession.nodes, userMessage \in UserMessages, hasKey \in BOOLEAN :
       /\ currentSession.nodes[node].type = "input"
       /\ LET r == sendBegin(Store, send, node, userMessage)
          IN IF hasKey
             THEN SetSend([r EXCEPT !.sd.pc = "streaming"])
             ELSE SetSend(sendFail(r.st, r.sd, now))
       /\ lastEvent' = Event("send", node, hasKey, <<>>)
  /\ UNCHANGED <<modelConfigs, db, now, pathResult>>

\* a chunk of the response arrives
SendChunk ==
  /\ send.pc = "streaming"
  /\ send.chunks < MaxChunks
  /\ \E type \in {"thinking", "content"}, chunk \in ChunkTexts :
       /\ SetSend(onChunk(Store, send, type, chunk))
       /\ lastEvent' = Event("chunk." \o type, send.conversationNodeId, TRUE, <<>>)
  /\ UNCHANGED <<modelConfigs, db, now, pathResult>>

\* the stream ends: sendAIMessage returns
SendComplete ==
  /\ send.pc = "streaming"
  /\ LET r == sendFinalUpdate(Store, send)
     IN IF r.sd.awaitRid # 0
        THEN SetSend(r) /\ now' = now
        ELSE \E id2 \in {now + 1, now + 2} :
               SetSend(sendAfterFinal(r.st, r.sd, now + 1, id2)) /\ now' = id2
  /\ lastEvent' = Event("complete", send.conversationNodeId, TRUE, <<>>)
  /\ UNCHANGED <<modelConfigs, db, pathResult>>

\* the user stops the generation (handleStop, lines 579-583): AbortError
SendAbort ==
  /\ send.pc = "streaming"
  /\ SetSend(sendAbort(Store, send, now + 1))
  /\ now' = now + 1
  /\ lastEvent' = Event("abort", send.conversationNodeId, TRUE, <<>>)
  /\ UNCHANGED <<modelConfigs, db, pathResult>>

\* the request fails: network error or non-success response
SendFail ==
  /\ send.pc = "streaming"
  /\ SetSend(sendFail(Store, send, now))
  /\ lastEvent' = Event("fail", send.conversationNodeId, TRUE, <<>>)
  /\ UNCHANGED <<modelConfigs, db, now, pathResult>>

SendServerApply == \E r \in inflight : ServerApply(r)

\* the response of an applied request arrives; handleSend resumes when it
\* is the call it awaits
SendDeliver ==
  \E r \in inflight :
    /\ r.status = "applied"
    /\ lastEvent' = Event(r.op \o ".done", r.nodeId, TRUE, <<>>)
    /\ UNCHANGED <<modelConfigs, db, pathResult>>
    /\ IF r.rid = send.awaitRid /\ send.pc = "awaitFinal"
       THEN \E id2 \in {now + 1, now + 2} :
              SetSend(sendAfterFinal(Returned(r, TRUE), send, now + 1, id2)) /\ now' = id2
       ELSE IF r.rid = send.awaitRid /\ send.pc = "awaitStop"
       THEN SetSend(sendAfterStop(Returned(r, TRUE), send, now + 1)) /\ now' = now + 1
       ELSE SetStore(Returned(r, TRUE)) /\ UNCHANGED <<send, now>>

SendNext ==
  \/ SendStart
  \/ SendChunk
  \/ SendComplete
  \/ SendAbort
  \/ SendFail
  \/ SendServerApply
  \/ SendDeliver

SendSpec == SendInit /\ [][SendNext]_vars

----------------------------------------------------------------------------
(* Properties of one generation (SendSpec) *)

Target == send.conversationNodeId
Ended(outcomes) == send.pc = "done" /\ send.outcome \in outcomes
\* every persistence call has returned
Quiescent == inflight = {}
\* the session writes issued from the end of the stream on
WritesAfterStream == SelectSeq(writeLog, LAMBDA e : e.phase = "ending")
WritesOf(log, op) == SelectSeq(log, LAMBDA e : e.op = op)
\* the assistant payload the target node has in a session
AssistantIn(session) == session.nodes[Target].assistantMessage
ThinkingIn(session) == session.nodes[Target].thinkingContent
\* the content merged by the stream, with the stop marker when cancelled
FinalContent ==
  IF send.outcome = "cancelled" THEN send.streamedContent \o StopMark
  ELSE send.streamedContent
\* input nodes that are children of the target node in a session
InputChildren(session) ==
  {n \in DOMAIN session.nodes :
     session.nodes[n].parentId = Target /\ session.nodes[n].type = "input"}

\* every chunk callback has put the content received so far into the
\* in-memory node, and no session write is issued while the stream runs
ChunksMergeWithoutWrites ==
  /\ lastEvent.op = "chunk.content" =>
       AssistantIn(currentSession) = Some(send.streamedContent)
  /\ lastEvent.op = "chunk.thinking" =>
       ThinkingIn(currentSession) = Some(send.streamedThinking)
  /\ \A i \in DOMAIN writeLog : writeLog[i].phase # "streaming"

C7_CancelKeepsPartial ==
  (Ended({"cancelled"}) /\ send.streamedContent # <<>> /\ Quiescent) =>
    /\ AssistantIn(currentSession) = Some(send.streamedContent \o StopMark)
    /\ AssistantIn(db[Sid1]) = Some(send.streamedContent \o StopMark)
    /\ Len(WritesOf(WritesAfterStream, "updateNode")) = 1
    /\ AssistantIn(WritesOf(WritesAfterStream, "updateNode")[1].session)
         = Some(send.streamedContent \o StopMark)

\* C8: when a generation has ended as completed or cancelled, whenever the
\* cancellation came, the merged content (reasoning included) is in the
\* database and the target node has a new input child
C8_EndPersistsAndContinues ==
  (Ended({"completed", "cancelled"}) /\ Quiescent) =>
    /\ AssistantIn(db[Sid1]) = Some(FinalContent)
    /\ ThinkingIn(db[Sid1]) = OrUndefined(send.streamedThinking)
    /\ InputChildren(currentSession) # {}
    /\ InputChildren(db[Sid1]) # {}

\* C9: when a generation has ended as failed, no conversation node is left
\* without its assistant payload, and the target node holds nothing of what
\* the stream had merged, in memory or in a write issued afterwards
C9_FailedLeavesNothing ==
  Ended({"failed"}) =>
    /\ \A n \in DOMAIN currentSession.nodes :
         currentSession.nodes[n].type = "conversation" =>
           Truthy(currentSession.nodes[n].assistantMessage)
    /\ send.streamedContent # <<>> =>
         AssistantIn(currentSession) # Some(send.streamedContent)
    /\ send.streamedThinking # <<>> =>
         ThinkingIn(currentSession) # Some(send.streamedThinking)
    /\ \A i \in DOMAIN WritesAfterStream :
         /\ send.streamedContent # <<>> =>
              AssistantIn(WritesAfterStream[i].session) # Some(send.streamedContent)

\* C10: when a generation has ended as failed, no input node has been
\* created beneath the target node (in memory, in the database or in a
\* request), the failure has been shown once, and sending is over
C10_FailedCreatesNoChild ==
  Ended({"failed"}) =>
    /\ send.inputIds = <<>>
    /\ InputChildren(currentSession) = {}
    /\ InputChildren(db[Sid1]) = {}
    /\ \A r \in inflight : InputChildren(r.session) = {}
    /\ WritesOf(writeLog, "addNode") = <<>>
    /\ send.alerts = 1
    /\ ~send.isSending

\* a generation failed after chunks had been merged
C10_Witness ==
  /\ Ended({"failed"})
  /\ send.chunks > 0
  /\ send.streamedContent # <<>>

----------------------------------------------------------------------------
(* The first message of a new session, end to end (SendSpec) *)

\* the generation was sent from the root of a newly created session
FromNewRoot == send.node = RootId

\* C11: a new session has one node, an input root; sending from the root
\* makes it a conversation node with the user message and no assistant
\* payload while sending is on; once the stream has completed and every
\* persistence call has returned, in whatever order, the root holds the
\* streamed content and has a new input child
C11_EndToEnd ==
  /\ (send.pc = "idle" /\ currentSession.title = DefaultTitle) =>
       /\ DOMAIN currentSession.nodes = {RootId}
       /\ currentSession.nodes[RootId].type = "input"
  /\ (lastEvent.op = "send" /\ lastEvent.ok /\ FromNewRoot) =>
       /\ currentSession.nodes[RootId].type = "conversation"
       /\ currentSession.nodes[RootId].userMessage = Some(send.userMessage)
       /\ currentSession.nodes[RootId].assistantMessage = None
       /\ send.isSending
  /\ (Ended({"completed"}) /\ FromNewRoot /\ Quiescent) =>
       /\ AssistantIn(currentSession) = Some(send.streamedContent)
       /\ InputChildren(currentSession) # {}

----------------------------------------------------------------------------
(* Mutations of the store that overlap (StoreSpec) *)

\* what a node is, apart from its children list
NodeFields(n) == [type |-> n.type, userMessage |-> n.userMessage,
                  assistantMessage |-> n.assistantMessage]

\* the step is the return of the persistence call of an addNode
AddNodeReturns == lastEvent'.op = "addNode.done" /\ lastEvent'.ok

\* C12: a mutation started while an earlier one's persistence call is out
\* is not lost: when the persistence call of an addNode returns, every node
\* the in-memory session held is still there, as it was, so the session
\* holds the effects of both mutations
C12_NoLostUpdate ==
  [][ AddNodeReturns =>
        \A n \in DOMAIN currentSession.nodes :
          /\ n \in DOMAIN currentSession'.nodes
          /\ NodeFields(currentSession'.nodes[n]) = NodeFields(currentSession.nodes[n])
    ]_vars

----------------------------------------------------------------------------
(* Chunk merges and the other store operations of a generation (SendSpec) *)

\* the stream is running, or has completed
StreamingOrCompleted ==
  send.pc \in {"streaming", "awaitFinal"} \/ Ended({"completed"})

\* C13: at every point of a stream and at its completion, whatever other
\* store operation's persistence call returns in between, the target node's
\* in-memory assistantMessage is the concatenation, in arrival order, of
\* the content chunks received so far
C13_ChunksInOrderNoLoss ==
  (StreamingOrCompleted /\ send.streamedContent # <<>>) =>
    AssistantIn(currentSession) = Some(send.streamedContent)

\* C14: the session writes are serialized: no two calls of
\* sessionAPI.updateSession for the session are out together, each write
\* is issued after the previous one has returned
C14_WritesSerialized ==
  \A r1, r2 \in inflight : r1.session.id = r2.session.id => r1 = r2

----------------------------------------------------------------------------
(* A persistence call that fails (StoreSpec) *)

\* the last step was the failure of the persistence call of operation op
Failed(op) == lastEvent.op = op \o ".done" /\ ~lastEvent.ok

\* C15: when the persistence call of a mutation fails, the mutation is
\* still in the in-memory session: the node of a failed addNode is there,
\* the node of a failed deleteNode is not
C15_FailureKeepsMutation ==
  /\ Failed("addNode") => lastEvent.nodeId \in DOMAIN currentSession.nodes
  /\ Failed("deleteNode") => lastEvent.nodeId \notin DOMAIN currentSession.nodes

----------------------------------------------------------------------------
(* layoutUtils (part_004 lines 1-154).  A text is a sequence of            *)
(* characters, "\n" the line break.  All widths and spacings are multiples *)
(* of 100, so every halving below is exact.                                *)

NodeWidth == 600             \* buildTree, line 70: width
HorizontalSpacing == 100     \* autoLayout, line 140
VerticalSpacing == 80        \* autoLayout, line 141
OriginX == 300               \* autoLayout, line 147
OriginY == 50                \* autoLayout, line 147
WrapColumns == 60            \* estimateContentHeight, line 30
LineHeight == 24             \* estimateContentHeight, lines 24 and 31
HeadingHeight == 36          \* estimateContentHeight, line 26
CodeLineHeight == 20         \* estimateContentHeight, line 38
CodePadding == 32            \* estimateContentHeight, line 38
ThinkingHeight == 60         \* estimateNodeHeight, line 47
ConversationBase == 220      \* estimateNodeHeight, line 48: 120 + ... + 100
InputHeight == 300           \* estimateNodeHeight, line 50
OtherHeight == 200           \* estimateNodeHeight, line 52

Max(a, b) == IF a >= b THEN a ELSE b
Half(n) == n \div 2
\* Math.ceil(n / d)
CeilDiv(n, d) == (n + d - 1) \div d

Tick == "tick"                \* the backquote character
Fence == <<Tick, Tick, Tick>>

\* the smallest element of a non-empty set of numbers
Least(S) == CHOOSE i \in S : \A j \in S : i <= j

\* text.split('\n'): line k lies between line break k-1 and line break k
SplitLines(text) ==
  LET breaks == {i \in DOMAIN text : text[i] = "\n"}
      breakAt(k) == IF k = 0 THEN 0
                    ELSE IF k > Cardinality(breaks) THEN Len(text) + 1
                    ELSE CHOOSE i \in breaks : Cardinality({j \in breaks : j < i}) = k - 1
  IN [k \in 1..(Cardinality(breaks) + 1) |->
        SubSeq(text, breakAt(k - 1) + 1, breakAt(k) - 1)]

\* line.trim() === ''
IsBlank(line) == \A i \in DOMAIN line : line[i] \in {" ", "\t"}

\* line.startsWith(prefix)
StartsWith(line, prefix) ==
  Len(line) >= Len(prefix) /\ SubSeq(line, 1, Len(prefix)) = prefix

\* lines 22-33: the height of one line
lineHeightOf(line) ==
  IF IsBlank(line) THEN LineHeight
  ELSE IF StartsWith(line, <<"#">>) THEN HeadingHeight
  ELSE IF StartsWith(line, Fence) THEN 0
  ELSE CeilDiv(Len(line), WrapColumns) * LineHeight

\* the first index from i on where a fence begins, 0 if there is none
FindFence(text, i) ==
  LET found == {j \in i..(Len(text) - 2) : SubSeq(text, j, j + 2) = Fence}
  IN IF found = {} THEN 0 ELSE Least(found)

\* block.split('\n').length
LineCount(block) == Cardinality({i \in DOMAIN block : block[i] = "\n"}) + 1

\* lines 36-40: text.match(/```[\s\S]*?```/g), each block's height added
RECURSIVE codeBlocksHeight(_, _)
codeBlocksHeight(text, i) ==
  LET open == FindFence(text, i)
      close == IF open = 0 THEN 0 ELSE FindFence(text, open + 3)
  IN IF open = 0 \/ close = 0 THEN 0
     ELSE LineCount(SubSeq(text, open, close + 2)) * CodeLineHeight + CodePadding
          + codeBlocksHeight(text, close + 3)

RECURSIVE SumHeights(_, _)
SumHeights(lines, i) ==
  IF i > Len(lines) THEN 0 ELSE lineHeightOf(lines[i]) + SumHeights(lines, i + 1)

\* lines 17-43: estimateContentHeight
estimateContentHeight(text) ==
  IF text = <<>> THEN 0
  ELSE SumHeights(SplitLines(text), 1) + codeBlocksHeight(text, 1)

\* s || ''
OrEmpty(o) == IF o = None THEN <<>> ELSE o[1]

\* lines 15-54: estimateNodeHeight
estimateNodeHeight(node) ==
  IF node.type = "conversation"
  THEN ConversationBase + estimateContentHeight(OrEmpty(node.userMessage))
       + estimateContentHeight(OrEmpty(node.assistantMessage))
       + (IF Truthy(node.thinkingContent) THEN ThinkingHeight ELSE 0)
  ELSE IF node.type = "input" THEN InputHeight
  ELSE OtherHeight

\* buildTree, lines 59-61: the children that exist
LayoutChildren(nodes, id) ==
  SelectSeq(nodes[id].children, LAMBDA c : c \in DOMAIN nodes)

\* calculateSubtreeWidth, lines 81-83: the widths of the children, summed
RECURSIVE calculateSubtreeWidth(_, _, _)
RECURSIVE SumWidths(_, _, _, _)
SumWidths(nodes, kids, i, horizontalSpacing) ==
  IF i > Len(kids) THEN 0
  ELSE calculateSubtreeWidth(nodes, kids[i], horizontalSpacing)
       + SumWidths(nodes, kids, i + 1, horizontalSpacing)

\* a subtree as wide as its root, whatever lies below
calculateSubtreeWidth_NodeOnly(nodes, id, horizontalSpacing) == NodeWidth

\* calculateSubtreeWidth, lines 76-87
calculateSubtreeWidth(nodes, id, horizontalSpacing) ==
  LET kids == LayoutChildren(nodes, id)
  IN IF kids = <<>> THEN NodeWidth
     ELSE Max(NodeWidth, SumWidths(nodes, kids, 1, horizontalSpacing)
                         + (Len(kids) - 1) * horizontalSpacing)

\* a child placed below its parent's top by the spacing alone
childYOf_NoHeight(y, height, verticalSpacing) == y + verticalSpacing

\* layoutTree, line 113: childY
childYOf(y, height, verticalSpacing) == y + height + verticalSpacing

\* layoutTree, lines 90-123, with collectPositions (126-129): the positions
\* of the subtree of id placed at (x, y)
RECURSIVE layoutTree(_, _, _, _, _, _)
RECURSIVE layoutEach(_, _, _, _, _, _, _)
layoutEach(nodes, kids, index, currentX, childY, horizontalSpacing, verticalSpacing) ==
  IF index > Len(kids) THEN <<>>
  ELSE LET childWidth == calculateSubtreeWidth(nodes, kids[index], horizontalSpacing)
           childCenterX == currentX + Half(childWidth)
       IN layoutTree(nodes, kids[index], childCenterX, childY,
                     horizontalSpacing, verticalSpacing)
          @@ layoutEach(nodes, kids, index + 1, currentX + childWidth + horizontalSpacing,
                        childY, horizontalSpacing, verticalSpacing)

layoutTree(nodes, id, x, y, horizontalSpacing, verticalSpacing) ==
  LET kids == LayoutChildren(nodes, id)
      totalWidth == SumWidths(nodes, kids, 1, horizontalSpacing)
                    + (Len(kids) - 1) * horizontalSpacing
  IN (id :> [x |-> x, y |-> y])
     @@ (IF kids = <<>> THEN <<>>
         ELSE layoutEach(nodes, kids, 1, x - Half(totalWidth),
                         childYOf(y, estimateNodeHeight(nodes[id]), verticalSpacing),
                         horizontalSpacing, verticalSpacing))

\* a layout that starts from where the root is now
autoLayout_FromCurrent(nodes, rootId) ==
  layoutTree(nodes, rootId, nodes[rootId].position.x + OriginX, OriginY,
             HorizontalSpacing, VerticalSpacing)

\* autoLayout, lines 132-154
autoLayout(nodes, rootId) ==
  layoutTree(nodes, rootId, OriginX, OriginY, HorizontalSpacing, VerticalSpacing)

\* rearrangeNodes, lines 395-413: the session with the new positions
rearrangeNodesSession(cs) ==
  LET newPositions == autoLayout(cs.nodes, cs.rootNodeId)
  IN [cs EXCEPT !.nodes =
        [n \in DOMAIN cs.nodes |->
           IF n \in DOMAIN newPositions
           THEN [cs.nodes[n] EXCEPT !.position = newPositions[n]]
           ELSE cs.nodes[n]]]

\* rearrangeNodes, lines 391-424, up to the await
rearrangeNodes(st) ==
  IF st.currentSession = NullSession \/ st.currentSessionId = NullSid THEN st
  ELSE Issue(st, Request(st.inflight, "rearrangeNodes",
                         Touch(rearrangeNodesSession(st.currentSession), st.clock),
                         st.currentSession, st.sessions, st.currentSessionId,
                         NullId, NullId))

----------------------------------------------------------------------------
(* Specification LayoutSpec: a session with a tree of up to MaxNodes nodes *)
(* at arbitrary positions; the user presses "rearrange" (FlowCanvas        *)
(* handleRearrange, lines 100-104) any number of times.                    *)

MaxNodes == 5

\* a line longer than one wrap
LongLine == [i \in 1..(WrapColumns + 1) |-> "a"]

LayoutTexts ==
  << <<"H", "i">>,
     <<"#", " ", "T", "\n", "\n", "a", "b">>,
     Fence \o <<"\n", "x", "\n">> \o Fence \o <<"\n", "y">>,
     LongLine >>

TextAt(k) == LayoutTexts[(k % Len(LayoutTexts)) + 1]

\* the ids among 0..n-1 whose parent is id, in the order they were added
RECURSIVE ChildrenOf(_, _, _, _)
ChildrenOf(parent, n, id, i) ==
  IF i >= n THEN <<>>
  ELSE (IF parent[i] = id THEN <<i>> ELSE <<>>) \o ChildrenOf(parent, n, id, i + 1)

\* node id of a tree of n nodes: a conversation node, or an input node when
\* it is a leaf and the branches end with input nodes
LayoutNode(parent, n, id, shift, leafInput, moved) ==
  LET kids == ChildrenOf(parent, n, id, 1)
      asInput == leafInput /\ kids = <<>>
      base == IF asInput
              THEN MkNode(id, "input", <<>>, IF id = RootId THEN NullId ELSE parent[id],
                          None, None)
              ELSE MkNode(id, "conversation", TextAt(id + shift),
                          IF id = RootId THEN NullId ELSE parent[id],
                          Some(TextAt(id + shift)), Some(TextAt(id + shift + 1)))
      thinking == IF ~asInput /\ (id + shift) % 2 = 0 THEN Some(<<"t">>) ELSE None
  IN [f \in DOMAIN base \cup {"position"} |->
        IF f = "position" THEN [x |-> moved * (100 * id + 40), y |-> moved * 70 * id]
        ELSE IF f = "children" THEN kids
        ELSE IF f = "thinkingContent" THEN thinking
        ELSE base[f]]

LayoutSession(parent, n, shift, leafInput, moved) ==
  [id |-> Sid1, title |-> <<"H", "i">>,
   nodes |-> [id \in 0..(n - 1) |-> LayoutNode(parent, n, id, shift, leafInput, moved)],
   rootNodeId |-> RootId]

LayoutInit ==
  /\ \E n \in 1..MaxNodes, shift \in 0..(Len(LayoutTexts) - 1),
        leafInput \in BOOLEAN, moved \in {0, 1} :
       \E parent \in [1..(n - 1) -> 0..(MaxNodes - 2)] :
         /\ \A i \in 1..(n - 1) : parent[i] < i
         /\ LET session == LayoutSession(parent, n, shift, leafInput, moved)
            IN /\ sessions = Put(<<>>, Sid1, session)
               /\ currentSession = session
               /\ db = Put(<<>>, Sid1, session)
  /\ currentSessionId = Sid1
  /\ selectedNodeId = RootId
  /\ quotedContent = FALSE
  /\ inflight = {}
  /\ now = 0
  /\ send = IdleSend
  /\ pathResult = <<>>
  /\ writeLog = <<>>
  /\ modelConfigs = <<>>
  /\ lastEvent = NoEvent

\* handleRearrange: rearrangeNodes is called
LayoutRearrange ==
  /\ now < MaxTime
  /\ Cardinality(inflight) < MaxPending
  /\ SetStore(rearrangeNodes(Store))
  /\ now' = now + 1
  /\ lastEvent' = Event("rearrangeNodes", NullId, TRUE, <<>>)
  /\ UNCHANGED <<modelConfigs, db, send, pathResult>>

LayoutNext ==
  \/ LayoutRearrange
  \/ StoreServerApply
  \/ StoreDeliver
  \/ StoreReject

LayoutSpec == LayoutInit /\ [][LayoutNext]_vars

----------------------------------------------------------------------------
(* Properties of the layout (LayoutSpec) *)

\* the last step was the successful return of a rearrangeNodes
Laid == lastEvent.op = "rearrangeNodes.done" /\ lastEvent.ok
\* the position the in-memory session holds for node n
Pos(n) == currentSession.nodes[n].position
Kids(n) == LayoutChildren(currentSession.nodes, n)
Subtree(n) == SubtreeIds(currentSession.nodes, n)
\* the nodes with at least two children
Branching == {n \in DOMAIN currentSession.nodes : Len(Kids(n)) >= 2}
\* a node with two children whose subtrees differ in width
UnequalBranching ==
  \E n \in Branching :
    calculateSubtreeWidth(currentSession.nodes, Kids(n)[1], HorizontalSpacing)
      # calculateSubtreeWidth(currentSession.nodes, Kids(n)[Len(Kids(n))], HorizontalSpacing)

\* C16: after a rearrangement, under every node with two or more children
\* the boxes (NodeWidth wide) of the nodes of one child's subtree lie to the
\* left of those of every later child's subtree, at least the horizontal
\* spacing apart
C16_LayoutNonOverlap ==
  Laid =>
    \A p \in Branching :
      \A i, j \in DOMAIN Kids(p) :
        i < j =>
          \A a \in Subtree(Kids(p)[i]), b \in Subtree(Kids(p)[j]) :
            Pos(a).x + NodeWidth + HorizontalSpacing <= Pos(b).x

\* a rearranged tree where a node has two children that have children
C16_Witness ==
  /\ Laid
  /\ \E p \in Branching :
       \E i, j \in DOMAIN Kids(p) :
         i < j /\ Kids(Kids(p)[i]) # <<>> /\ Kids(Kids(p)[j]) # <<>>

\* C17: the layout does not depend on the positions the nodes had: the
\* positions a rearrangement leaves are those autoLayout gives for the tree
\* as it was before, and for the tree as it is now, so a second
\* rearrangement leaves every node where the first put it
C17_LayoutIdempotent ==
  Laid =>
    LET fromBefore == autoLayout(lastEvent.before, currentSession.rootNodeId)
        fromNow == autoLayout(currentSession.nodes, currentSession.rootNodeId)
    IN /\ \A n \in DOMAIN currentSession.nodes :
            Pos(n) = fromBefore[n] /\ Pos(n) = fromNow[n]
       /\ rearrangeNodesSession(currentSession) = currentSession

\* a second rearrangement has returned, the nodes having started elsewhere
C17_Witness ==
  /\ Laid
  /\ now >= 2
  /\ inflight = {}
  /\ Cardinality(DOMAIN currentSession.nodes) >= 3
  /\ \E n \in DOMAIN currentSession.nodes :
       db[Sid1].nodes[n].position = Pos(n) /\ Pos(n) # [x |-> 0, y |-> 0]

\* C18: after a rearrangement every node with two or more children is at
\* the horizontal midpoint of the span from its leftmost child's box to its
\* rightmost child's box
C18_ParentCentered ==
  Laid =>
    \A p \in Branching :
      2 * Pos(p).x = Pos(Kids(p)[1]).x + Pos(Kids(p)[Len(Kids(p))]).x

\* C19: after a rearrangement every node other than the root is below its
\* parent by the parent's estimated height plus the vertical spacing, and
\* the root is at the origin
C19_ChildBelowParent ==
  Laid =>
    /\ Pos(currentSession.rootNodeId) = [x |-> OriginX, y |-> OriginY]
    /\ \A n \in DOMAIN currentSession.nodes :
         n # currentSession.rootNodeId =>
           LET p == currentSession.nodes[n].parentId
           IN /\ Pos(n).y = Pos(p).y + estimateNodeHeight(currentSession.nodes[p])
                            + VerticalSpacing
              /\ Pos(n).y > Pos(p).y

\* a rearranged chain of three nodes whose heights differ
C19_Witness ==
  /\ Laid
  /\ \E n \in DOMAIN currentSession.nodes :
       /\ n # currentSession.rootNodeId
       /\ currentSession.nodes[n].parentId # currentSession.rootNodeId
       /\ estimateNodeHeight(currentSession.nodes[currentSession.nodes[n].parentId])
            # estimateNodeHeight(currentSession.nodes[currentSession.rootNodeId])

----------------------------------------------------------------------------
(* server/database.ts, the model_configs table (lines 255-308).  A row is  *)
(* kept by its id; the columns other than name and isDefault play no part. *)

\* createModelConfig, lines 255-273: INSERT; a row with the id already
\* there makes the statement throw (PRIMARY KEY) and nothing is inserted
createModelConfig(rows, config) ==
  IF config.id \in DOMAIN rows THEN rows
  ELSE Put(rows, config.id, [id |-> config.id, name |-> config.name,
                             isDefault |-> config.isDefault])

\* updateModelConfig, lines 276-294: UPDATE ... WHERE id = ?
updateModelConfig(rows, config) ==
  IF config.id \in DOMAIN rows
  THEN [rows EXCEPT ![config.id] = [id |-> config.id, name |-> config.name,
                                    isDefault |-> config.isDefault]]
  ELSE rows

\* getDefaultModelConfig, lines 234-252: SELECT ... WHERE isDefault = 1
\* LIMIT 1 without ORDER BY: the rows the query can return (none: null)
getDefaultModelConfig(rows) == {rows[i] : i \in {j \in DOMAIN rows : rows[j].isDefault}}

\* the flag set on one row, the other rows left as they are
setDefaultModelConfig_NoClear(rows, id) ==
  [i \in DOMAIN rows |-> [rows[i] EXCEPT !.isDefault = (i = id) \/ rows[i].isDefault]]

\* setDefaultModelConfig, lines 297-302: clear every flag, then set one
setDefaultModelConfig(rows, id) ==
  [i \in DOMAIN rows |-> [rows[i] EXCEPT !.isDefault = (i = id)]]

\* deleteModelConfig, lines 305-308
deleteModelConfig(rows, id) == Remove(rows, id)

----------------------------------------------------------------------------
(* Specification ConfigSpec: the model configuration routes of the server  *)
(* (part_001 lines 138-184) called in any order with any request body.     *)

MaxConfigs == 3
ConfigIds == 1..MaxConfigs
ConfigNames == {"a", "b"}
ConfigBodies == [id : ConfigIds, name : ConfigNames, isDefault : BOOLEAN]

ConfigInit ==
  /\ sessions = <<>>
  /\ currentSessionId = NullSid
  /\ currentSession = NullSession
  /\ selectedNodeId = NullId
  /\ quotedContent = FALSE
  /\ db = <<>>
  /\ modelConfigs = <<>>
  /\ inflight = {}
  /\ now = 0
  /\ send = IdleSend
  /\ pathResult = <<>>
  /\ writeLog = <<>>
  /\ lastEvent = NoEvent

ConfigUnchanged ==
  UNCHANGED <<sessions, currentSessionId, currentSession, selectedNodeId,
              quotedContent, db, inflight, now, send, pathResult, writeLog>>

\* POST /api/model-configs
ConfigCreate ==
  \E config \in ConfigBodies :
    /\ modelConfigs' = createModelConfig(modelConfigs, config)
    /\ lastEvent' = Event("createModelConfig", config.id,
                          config.id \notin DOMAIN modelConfigs, <<>>)
    /\ ConfigUnchanged

\* PUT /api/model-configs/:id
ConfigUpdate ==
  \E config \in ConfigBodies :
    /\ modelConfigs' = updateModelConfig(modelConfigs, config)
    /\ lastEvent' = Event("updateModelConfig", config.id, TRUE, <<>>)
    /\ ConfigUnchanged

\* PUT /api/model-configs/:id/set-default
ConfigSetDefault ==
  \E id \in ConfigIds :
    /\ modelConfigs' = setDefaultModelConfig(modelConfigs, id)
    /\ lastEvent' = Event("setDefaultModelConfig", id, id \in DOMAIN modelConfigs,
                          modelConfigs)
    /\ ConfigUnchanged

\* DELETE /api/model-configs/:id
ConfigDelete ==
  \E id \in ConfigIds :
    /\ modelConfigs' = deleteModelConfig(modelConfigs, id)
    /\ lastEvent' = Event("deleteModelConfig", id, TRUE, <<>>)
    /\ ConfigUnchanged

ConfigNext ==
  \/ ConfigCreate
  \/ ConfigUpdate
  \/ ConfigSetDefault
  \/ ConfigDelete

ConfigSpec == ConfigInit /\ [][ConfigNext]_vars

\* the configurations that carry the default flag
DefaultConfigs == {i \in DOMAIN modelConfigs : modelConfigs[i].isDefault}

\* C20: at most one model configuration carries the default flag, whatever
\* the routes called and the isDefault values of the bodies
C20_AtMostOneDefault == Cardinality(DefaultConfigs) <= 1

\* the last step was setDefaultModelConfig(B) for an existing configuration B
DefaultSet == lastEvent.op = "setDefaultModelConfig" /\ lastEvent.ok

\* C21: after setDefaultModelConfig(B) for an existing configuration B,
\* B and only B carries the default flag, whichever configurations carried
\* it before, and getDefaultModelConfig returns B
C21_SetDefaultExclusive ==
  DefaultSet =>
    /\ DefaultConfigs = {lastEvent.nodeId}
    /\ getDefaultModelConfig(modelConfigs) = {modelConfigs[lastEvent.nodeId]}

\* B was made the default when two other configurations carried the flag
C21_Witness ==
  /\ DefaultSet
  /\ Cardinality({i \in DOMAIN lastEvent.before : lastEvent.before[i].isDefault}) = 2
  /\ ~lastEvent.before[lastEvent.nodeId].isDefault

----------------------------------------------------------------------------
(* server/database.ts, the sessions table (lines 8-15, 107-176), and the   *)
(* session operations of chatStore.ts (lines 59-219).  A session id        *)
(* `session-${t}` is SidOf(t).  NoModel is the absent defaultModelId.       *)

NoModel == 0
SessionNames == <<"s1", "s2", "s3", "s4", "s5", "s6">>
SidOf(t) == SessionNames[t]

\* the columns of the sessions table (lines 8-15, 148-153)
SessionColumns == {"id", "title", "nodes", "rootNodeId", "createdAt", "updatedAt"}

\* createSession, lines 140-153: INSERT; an id already there makes it throw
dbCreateSession(rows, session) ==
  IF session.id \in DOMAIN rows THEN rows
  ELSE Put(rows, session.id, [f \in SessionColumns |-> session[f]])

\* deleteSession, lines 173-176
dbDeleteSession(rows, id) == Remove(rows, id)

\* lines 111-118 and 128-135: the session made from a row; no
\* defaultModelId is read, the field is undefined
rowToSession(row) ==
  [f \in SessionColumns \cup {"defaultModelId"} |->
     IF f = "defaultModelId" THEN NoModel ELSE row[f]]

\* getSession, lines 122-137 (the id is present)
dbGetSession(rows, id) == rowToSession(rows[id])

\* getAllSessions, lines 107-119: ORDER BY updatedAt DESC; the lists the
\* query can return (rows with equal updatedAt come in any order)
dbGetAllSessions(rows) ==
  {list \in [1..Cardinality(DOMAIN rows) -> {rowToSession(rows[i]) : i \in DOMAIN rows}] :
     /\ \A i, j \in DOMAIN list : i # j => list[i].id # list[j].id
     /\ \A i, j \in DOMAIN list : i < j => list[i].updatedAt >= list[j].updatedAt}

\* chatStore.ts createSession, lines 86-110, with its timestamps and the
\* global default model
createdSession(t, defaultModelId) ==
  [f \in DOMAIN newSession(SidOf(t)) \cup {"createdAt", "updatedAt", "defaultModelId"} |->
     IF f \in {"createdAt", "updatedAt"} THEN t
     ELSE IF f = "defaultModelId" THEN defaultModelId
     ELSE newSession(SidOf(t))[f]]

\* a call of the sessions API that is not an update of one session
SessionCall(st, op, session) ==
  Issue(st, Request(st.inflight, op, session, NullSession, st.sessions,
                    st.currentSessionId, NullId, NullId))

\* createSession, lines 85-123, up to the await; op tells the caller
createSession(st, op, defaultModelId) ==
  SessionCall(st, op, createdSession(st.clock, defaultModelId))

\* createSession, lines 114-119: after the await
createSessionReturned(st, r) ==
  [st EXCEPT !.sessions = Put(st.sessions, r.session.id, r.session),
             !.currentSessionId = r.session.id,
             !.currentSession = r.session,
             !.selectedNodeId = RootId]

\* switchSession without the test of line 128
switchSession_Unchecked(st, sessionId) ==
  LET session == IF sessionId \in DOMAIN st.sessions THEN st.sessions[sessionId]
                 ELSE NullSession
  IN [st EXCEPT !.currentSessionId = sessionId,
                !.currentSession = session,
                !.selectedNodeId = session.rootNodeId,
                !.quotedContent = FALSE]

\* switchSession, lines 125-136
switchSession(st, sessionId) ==
  IF sessionId \in DOMAIN st.sessions
  THEN [st EXCEPT !.currentSessionId = sessionId,
                  !.currentSession = st.sessions[sessionId],
                  !.selectedNodeId = st.sessions[sessionId].rootNodeId,
                  !.quotedContent = FALSE]
  ELSE st

\* deleteSession, lines 138-140, up to the await
deleteSession(st, sessionId) ==
  SessionCall(st, "deleteSession", [id |-> sessionId])

\* deleteSession, lines 142-164: after the await; next is the key
\* Object.keys(newSessions)[0] gives when a session remains; with none
\* remaining createSession is called
deleteSessionReturned(st, r, next, defaultModelId) ==
  LET sessionId == r.session.id
      newSessions == IF sessionId \in DOMAIN st.sessions
                     THEN Remove(st.sessions, sessionId) ELSE st.sessions
      st1 == [st EXCEPT !.sessions = newSessions]
  IN IF st.currentSessionId # sessionId THEN st1
     ELSE IF DOMAIN newSessions # {}
     THEN [st1 EXCEPT !.currentSessionId = next,
                      !.currentSession = newSessions[next],
                      !.selectedNodeId = newSessions[next].rootNodeId]
     ELSE createSession(st1, "deleteSession.create", defaultModelId)

\* updateSessionDefaultModel, lines 190-208, up to the await
updateSessionDefaultModel(st, sessionId, modelId) ==
  IF sessionId \notin DOMAIN st.sessions THEN st
  ELSE Issue(st, Request(st.inflight, "updateSessionDefaultModel",
                         Touch([st.sessions[sessionId] EXCEPT !.defaultModelId = modelId],
                               st.clock),
                         st.sessions[sessionId], st.sessions, st.currentSessionId,
                         NullId, NullId))

\* loadSessions, lines 59-62, up to the await
loadSessions(st, op) == SessionCall(st, op, [id |-> NullSid])

\* loadSessions, lines 63-78: after the await, list being the response
loadSessionsReturned(st, list) ==
  LET byId(id) == list[CHOOSE i \in DOMAIN list : list[i].id = id]
      sessionsMap == [id \in {list[i].id : i \in DOMAIN list} |-> byId(id)]
      loaded == [st EXCEPT !.sessions = sessionsMap]
  IN IF Len(list) > 0 /\ st.currentSessionId = NullSid
     THEN [loaded EXCEPT !.currentSessionId = list[1].id,
                         !.currentSession = list[1],
                         !.selectedNodeId = list[1].rootNodeId]
     ELSE loaded

\* initSession, lines 214-218: after loadSessions, whatever its outcome
initSessionContinue(st, defaultModelId) ==
  IF DOMAIN st.sessions = {} THEN createSession(st, "initSession.create", defaultModelId)
  ELSE st

----------------------------------------------------------------------------
(* Specification SessionSpec: the application starts (App.tsx line 14:     *)
(* initSession) on a database that holds no session or two; the user       *)
(* creates, switches and deletes sessions and sets the default model of    *)
(* the current session, while the calls of the sessions API are in flight, *)
(* succeed or fail.  Time passes between   *)
(* two actions of the user: each of them advances the clock.               *)

ModelIds == {2}

\* a session persisted by an earlier run, last updated at time t <= 0
PersistedSession(name, t) ==
  [f \in SessionColumns |->
     IF f = "id" THEN name
     ELSE IF f \in {"createdAt", "updatedAt"} THEN t
     ELSE newSession(name)[f]]

PersistedTables ==
  { <<>>,
    Put(Put(<<>>, "p1", PersistedSession("p1", -2)), "p2", PersistedSession("p2", -1)) }

\* the store as created (chatStore.ts lines 52-57)
EmptyStore ==
  [sessions |-> <<>>, currentSessionId |-> NullSid, currentSession |-> NullSession,
   selectedNodeId |-> NullId, quotedContent |-> FALSE, inflight |-> {},
   writeLog |-> <<>>, phase |-> "none", clock |-> 0]

SessionInit ==
  /\ db \in PersistedTables
  /\ LET st == loadSessions(EmptyStore, "initSession.load")
     IN /\ sessions = st.sessions
        /\ currentSessionId = st.currentSessionId
        /\ currentSession = st.currentSession
        /\ selectedNodeId = st.selectedNodeId
        /\ quotedContent = st.quotedContent
        /\ inflight = st.inflight
        /\ writeLog = st.writeLog
  /\ modelConfigs \in {<<>>, createModelConfig(<<>>, [id |-> 1, name |-> "a",
                                                     isDefault |-> TRUE])}
  /\ now = 0
  /\ send = IdleSend
  /\ pathResult = <<>>
  /\ lastEvent = NoEvent

\* useSettingsStore.getState().defaultModelConfig?.id (chatStore.ts lines
\* 100, 109), the settings store holding what getDefaultModelConfig gave
settingsDefaultModelId ==
  IF getDefaultModelConfig(modelConfigs) = {} THEN NoModel
  ELSE (CHOOSE config \in getDefaultModelConfig(modelConfigs) : TRUE).id

\* the store at the time now + 1 that the operation reads from Date.now()
StoreAt == [Store EXCEPT !.clock = now + 1]

SessionFrame == UNCHANGED <<modelConfigs, send, pathResult>>

\* "new chat" (part_004 lines 195-204)
SessionCreate ==
  /\ now < MaxTime
  /\ Cardinality(inflight) < MaxPending
  /\ SetStore(createSession(StoreAt, "createSession", settingsDefaultModelId))
  /\ now' = now + 1
  /\ lastEvent' = Event("createSession", NullId, TRUE, <<>>)
  /\ UNCHANGED db /\ SessionFrame

\* a session is clicked in the sidebar (part_004 lines 207-211); the id may
\* be one the store no longer has
SessionSwitch ==
  /\ now < MaxTime
  /\ now' = now + 1
  /\ \E sessionId \in DOMAIN sessions \cup {"gone"} :
       /\ sessionId # currentSessionId
       /\ SetStore(switchSession(Store, sessionId))
       /\ lastEvent' = Event("switchSession", NullId, sessionId \in DOMAIN sessions, <<>>)
  /\ UNCHANGED db /\ SessionFrame

\* a session is deleted in the sidebar (part_004 lines 188-193)
SessionDelete ==
  /\ now < MaxTime
  /\ now' = now + 1
  /\ Cardinality(inflight) < MaxPending
  /\ \E sessionId \in DOMAIN sessions :
       /\ \A r \in inflight : ~(r.op = "deleteSession" /\ r.session.id = sessionId)
       /\ SetStore(deleteSession(Store, sessionId))
       /\ lastEvent' = Event("deleteSession", NullId, TRUE, <<>>)
  /\ UNCHANGED db /\ SessionFrame

\* the model of the current session is chosen (FlowCanvas line 23)
SessionSetDefaultModel ==
  /\ now < MaxTime
  /\ Cardinality(inflight) < MaxPending
  /\ currentSessionId # NullSid
  /\ \E modelId \in ModelIds :
       SetStore(updateSessionDefaultModel(StoreAt, currentSessionId, modelId))
  /\ now' = now + 1
  /\ lastEvent' = Event("updateSessionDefaultModel", NullId,
                        currentSessionId \in DOMAIN sessions, <<>>)
  /\ UNCHANGED db /\ SessionFrame

CreateOps == {"createSession", "deleteSession.create", "initSession.create"}

\* the server handles a call of the sessions API (part_001 lines 28-92)
SessionServerApply ==
  \E r \in inflight :
    /\ r.status = "sent"
    /\ \E response \in IF r.op = "initSession.load" THEN dbGetAllSessions(db) ELSE {<<>>} :
         inflight' = (inflight \ {r}) \cup
                       {[r EXCEPT !.status = "applied", !.response = response]}
    /\ db' = IF r.op \in CreateOps THEN dbCreateSession(db, r.session)
             ELSE IF r.op = "deleteSession" THEN dbDeleteSession(db, r.session.id)
             ELSE IF r.op = "initSession.load" THEN db
             ELSE dbUpdateSession(db, r.session)
    /\ lastEvent' = Event("serverApply." \o r.op, r.nodeId, TRUE, r.session)
    /\ UNCHANGED <<sessions, currentSessionId, currentSession, selectedNodeId,
                   quotedContent, now, writeLog>>
    /\ SessionFrame

\* what the store does when the awaited call of request r returns, for the
\* session operations as well
SessionContinuation(st, r, ok, next, defaultModelId) ==
  IF r.op \in CreateOps
  THEN IF ok THEN createSessionReturned(st, r) ELSE st
  ELSE IF r.op = "deleteSession"
  THEN IF ok THEN deleteSessionReturned(st, r, next, defaultModelId) ELSE st
  ELSE IF r.op = "initSession.load"
  THEN initSessionContinue(IF ok THEN loadSessionsReturned(st, r.response) ELSE st,
                           defaultModelId)
  ELSE Continuation(st, r, ok)

\* the call of request r returns; a continuation that calls createSession
\* reads the clock
SessionReturn(r, ok) ==
  LET base == [StoreAt EXCEPT !.inflight = @ \ {r}]
      remaining == DOMAIN sessions \ {r.session.id}
  IN \E next \in IF remaining = {} THEN {NullSid} ELSE remaining :
       LET st == SessionContinuation(base, r, ok, next, settingsDefaultModelId)
           creates == st.inflight # base.inflight
       IN /\ creates => now < MaxTime
          /\ SetStore(st)
          /\ now' = IF creates THEN now + 1 ELSE now
          /\ lastEvent' = Event(r.op \o ".done", r.nodeId, ok,
                                [id |-> r.session.id, current |-> currentSessionId,
                                 sid |-> r.sid, creates |-> creates])
          /\ UNCHANGED db /\ SessionFrame

SessionDeliver == \E r \in inflight : r.status = "applied" /\ SessionReturn(r, TRUE)

\* the call fails (network error, server error)
SessionReject == \E r \in inflight : r.status = "sent" /\ SessionReturn(r, FALSE)

SessionNext ==
  \/ SessionCreate
  \/ SessionSwitch
  \/ SessionDelete
  \/ SessionSetDefaultModel
  \/ SessionServerApply
  \/ SessionDeliver
  \/ SessionReject

SessionSpec == SessionInit /\ [][SessionNext]_vars

----------------------------------------------------------------------------
(* Properties of SessionSpec *)

\* the server has just applied a createSession or an updateSession of a
\* session whose row exists
SessionWritten ==
  /\ lastEvent.op \in {"serverApply.createSession", "serverApply.deleteSession.create",
                       "serverApply.initSession.create",
                       "serverApply.updateSessionDefaultModel"}
  /\ lastEvent.before.id \in DOMAIN db

\* C22: a session written with createSession or overwritten with
\* updateSession reads back from getSession and getAllSessions with the
\* same id, title, nodes, rootNodeId, timestamps and default-model reference
C22_SessionRoundTrip ==
  SessionWritten =>
    /\ dbGetSession(db, lastEvent.before.id) = lastEvent.before
    /\ \A list \in dbGetAllSessions(db) :
         \E i \in DOMAIN list : list[i] = lastEvent.before

\* deleteSession(id) has returned for the session that was active: either
\* it activated a remaining session, or its call of createSession returned
DeleteReturned ==
  \/ /\ lastEvent.op = "deleteSession.done"
     /\ lastEvent.ok
     /\ lastEvent.before.current = lastEvent.before.id
     /\ ~lastEvent.before.creates
  \/ lastEvent.op = "deleteSession.create.done"

DeletedId ==
  IF lastEvent.op = "deleteSession.done" THEN lastEvent.before.id ELSE lastEvent.before.sid

\* C23: after deleteSession(id) returns for the active session,
\* currentSessionId names a session of the map other than the deleted one,
\* with currentSession and selectedNodeId set to that session and its root,
\* whether the creation of the replacement succeeded or failed
C23_DeleteActivatesAnother ==
  DeleteReturned =>
    /\ currentSessionId \in DOMAIN sessions
    /\ currentSessionId # DeletedId
    /\ currentSession = sessions[currentSessionId]
    /\ selectedNodeId = currentSession.rootNodeId

\* the load call of initSession has returned
InitLoaded == lastEvent.op = "initSession.load.done"

\* the persisted sessions that were updated last
MostRecent == {id \in DOMAIN db : \A other \in DOMAIN db : db[id].updatedAt >= db[other].updatedAt}

\* C24: initSession creates a fresh session only if no session is
\* persisted, whether the load call succeeded or failed; when sessions are
\* persisted and loaded, the most recently updated one becomes the current
\* session with its root selected
C24_LoadOrCreate ==
  InitLoaded =>
    /\ lastEvent.before.creates => DOMAIN db = {}
    /\ (lastEvent.ok /\ DOMAIN db # {}) =>
         /\ currentSessionId \in MostRecent
         /\ currentSession = dbGetSession(db, currentSessionId)
         /\ selectedNodeId = currentSession.rootNodeId

\* currentSession is null exactly when currentSessionId is null, and is
\* otherwise the entry of the sessions map under currentSessionId
CurrentSessionConsistent ==
  /\ currentSession = NullSession <=> currentSessionId = NullSid
  /\ currentSessionId # NullSid =>
       /\ currentSessionId \in DOMAIN sessions
       /\ currentSession = sessions[currentSessionId]

\* the step is the write-back of an operation that awaited its persistence
\* call (addNode, deleteNode, rearrangeNodes, updateSessionTitle,
\* updateSessionDefaultModel)
WriteBack ==
  /\ lastEvent'.op \in {"addNode.done", "deleteNode.done", "rearrangeNodes.done",
                        "updateSessionTitle.done", "updateSessionDefaultModel.done"}
  /\ lastEvent'.ok

\* C27: in every reachable state currentSession is null exactly when
\* currentSessionId is null and is otherwise sessions[currentSessionId],
\* also when a session is switched to, created or deleted while another
\* operation awaits its persistence call; and the write-back of that
\* operation drops no session of the map
C27_CurrentSessionConsistent ==
  /\ []CurrentSessionConsistent
  /\ [][WriteBack => DOMAIN sessions \subseteq DOMAIN sessions']_vars

\* the write-back alone: from a consistent state it leaves a consistent
\* state and drops no session
C27_WriteBackKeepsSessions ==
  [][(WriteBack /\ CurrentSessionConsistent) =>
       /\ CurrentSessionConsistent'
       /\ DOMAIN sessions \subseteq DOMAIN sessions']_vars

----------------------------------------------------------------------------
(* Specification LookupSpec: the node operations of StoreSpec on a store   *)
(* that holds two sessions, with switchSession and a quotation set; the    *)
(* ids the callers pass may name nothing.                                  *)

Sid2 == "s2"

LookupInit ==
  /\ sessions = Put(Put(<<>>, Sid1, newSession(Sid1)), Sid2, newSession(Sid2))
  /\ currentSessionId = Sid1
  /\ currentSession = newSession(Sid1)
  /\ selectedNodeId = RootId
  /\ quotedContent = FALSE
  /\ db = Put(Put(<<>>, Sid1, newSession(Sid1)), Sid2, newSession(Sid2))
  /\ inflight = {}
  /\ now = 0
  /\ send = IdleSend
  /\ pathResult = <<>>
  /\ writeLog = <<>>
  /\ modelConfigs = <<>>
  /\ lastEvent = NoEvent

\* switchSession with the id its caller holds
LookupSwitch ==
  /\ now < MaxTime
  /\ now' = now + 1
  /\ \E sessionId \in DOMAIN sessions \cup {"gone"} :
       /\ SetStore(switchSession(Store, sessionId))
       /\ lastEvent' = Event("switchSession", NullId, sessionId \in DOMAIN sessions, <<>>)
  /\ UNCHANGED <<modelConfigs, db, send, pathResult>>

\* a text of a node is quoted (setQuotedContent, lines 349-351)
LookupQuote ==
  /\ quotedContent = FALSE
  /\ SetStore(setQuotedContent(Store, TRUE))
  /\ lastEvent' = Event("setQuotedContent", NullId, TRUE, <<>>)
  /\ UNCHANGED <<modelConfigs, db, now, send, pathResult>>

LookupNext ==
  \/ StoreAddNode
  \/ StoreUpdateNode
  \/ StoreDeleteNode
  \/ LookupSwitch
  \/ LookupQuote
  \/ StoreServerApply
  \/ StoreDeliver
  \/ StoreReject

LookupSpec == LookupInit /\ [][LookupNext]_vars

\* the step is a call of updateNode or deleteNode with a node id absent
\* from the current session, or of switchSession with an unknown session id
NotFoundCall ==
  /\ lastEvent'.op \in {"updateNode", "deleteNode", "switchSession"}
  /\ ~lastEvent'.ok

\* C25: updateNode or deleteNode with a node id absent from the current
\* session, and switchSession with an unknown session id, leave sessions,
\* currentSession, currentSessionId, selectedNodeId and quotedContent
\* unchanged and issue no persistence call
C25_NotFoundNoOp ==
  [][NotFoundCall =>
       UNCHANGED <<sessions, currentSession, currentSessionId, selectedNodeId,
                   quotedContent, inflight, db>>]_vars

\* a not-found call was made on a store with a quotation, a node selected
\* other than the root and a persistence call in flight
C25_Witness ==
  /\ lastEvent.op \in {"updateNode", "deleteNode", "switchSession"}
  /\ ~lastEvent.ok
  /\ quotedContent
  /\ selectedNodeId # RootId
  /\ inflight # {}

\* C30: selectedNodeId is null or names a node of currentSession.nodes, in
\* every reachable state: right after createBranchNode, when addNode fails,
\* after deleteNode
C30_SelectionInSession ==
  selectedNodeId = NullId \/
    (currentSession # NullSession /\ selectedNodeId \in DOMAIN currentSession.nodes)

----------------------------------------------------------------------------
(* The input node created when a stream completes (SendSpec) *)

\* the children a session gives the finished node; it was an input node
\* without children when the message was sent
NewChildren(session) == Range(session.nodes[Target].children)

\* C29: after a stream has completed and every persistence call has
\* returned, the session in memory and the persisted session both hold
\* exactly one new child of the finished node, an input node, and
\* selectedNodeId names it
C29_OneNewInputNode ==
  (Ended({"completed"}) /\ Quiescent) =>
    /\ Cardinality(NewChildren(currentSession)) = 1
    /\ NewChildren(currentSession) = InputChildren(currentSession)
    /\ NewChildren(db[Sid1]) = NewChildren(currentSession)
    /\ InputChildren(db[Sid1]) = NewChildren(currentSession)
    /\ selectedNodeId \in NewChildren(currentSession)

----------------------------------------------------------------------------
(* Specification HistorySpec: one generation as in SendSpec in a session   *)
(* with a branch, the user clicking nodes of the canvas (FlowCanvas        *)
(* onNodeClick, lines 93-98) before and while it runs.  A click into an input node does not select   *)
(* it (part_006 line 828, stopPropagation).                                *)

\* a session with two answered turns, root and node 1 below it, and two
\* input nodes: node 2 branches from the root, node 3 continues node 1
BranchedSession ==
  [id |-> Sid1, title |-> <<"H", "i">>,
   nodes |-> (0 :> [MkNode(RootId, "conversation", <<"H", "i">>, NullId,
                           Some(<<"H", "i">>), Some(<<"o", "k">>))
                      EXCEPT !.children = <<1, 2>>]
              @@ 1 :> [MkNode(1, "conversation", <<"Q">>, RootId,
                              Some(<<"Q">>), Some(<<"R">>))
                         EXCEPT !.children = <<3>>]
              @@ 2 :> NewInputNode(2, RootId)
              @@ 3 :> NewInputNode(3, 1)),
   rootNodeId |-> RootId]

HistoryInit ==
  /\ sessions = Put(<<>>, Sid1, BranchedSession)
  /\ currentSession = BranchedSession
  /\ db = Put(<<>>, Sid1, BranchedSession)
  /\ selectedNodeId \in {2, 3}
  /\ currentSessionId = Sid1
  /\ quotedContent = FALSE
  /\ inflight = {}
  /\ now = 3
  /\ send = IdleSend
  /\ pathResult = <<>>
  /\ writeLog = <<>>
  /\ modelConfigs = <<>>
  /\ lastEvent = NoEvent

HistorySelectNode ==
  /\ \E nodeId \in DOMAIN currentSession.nodes :
       /\ nodeId # selectedNodeId
       /\ currentSession.nodes[nodeId].type # "input"
       /\ SetStore(selectNode(Store, nodeId))
       /\ lastEvent' = Event("selectNode", nodeId, TRUE, <<>>)
  /\ UNCHANGED <<modelConfigs, db, now, send, pathResult>>

HistoryNext ==
  \/ HistorySelectNode
  \/ SendNext

HistorySpec == HistoryInit /\ [][HistoryNext]_vars

\* C28: the messages sent for a generation started from input node N are
\* the resolved path from the root to N followed by the new user message,
\* whichever node is selected when the user sends
C28_HistoryFromSendingNode ==
  (lastEvent.op = "send" /\ lastEvent.ok) =>
    send.messages = HistoryOf([Store EXCEPT !.selectedNodeId = send.node],
                              send.userMessage)

----------------------------------------------------------------------------
(* Specification IsolationSpec: one generation as in SendSpec, started in  *)
(* session s1 of a store that holds a second session s2; the user switches *)
(* between the sessions while the generation runs.  The root of every       *)
(* session has the id 'root' (chatStore.ts line 87).                       *)

IsolationInit ==
  /\ sessions = Put(Put(<<>>, Sid1, newSession(Sid1)), Sid2, newSession(Sid2))
  /\ currentSessionId = Sid1
  /\ currentSession = newSession(Sid1)
  /\ selectedNodeId = RootId
  /\ quotedContent = FALSE
  /\ db = Put(Put(<<>>, Sid1, newSession(Sid1)), Sid2, newSession(Sid2))
  /\ inflight = {}
  /\ now = 1
  /\ send = IdleSend
  /\ pathResult = <<>>
  /\ writeLog = <<>>
  /\ modelConfigs = <<>>
  /\ lastEvent = NoEvent

\* a session is clicked in the sidebar (part_004 lines 208-212)
IsolationSwitch ==
  /\ send.pc \in {"streaming", "awaitFinal", "awaitStop"}
  /\ \E sessionId \in DOMAIN sessions :
       /\ sessionId # currentSessionId
       /\ SetStore(switchSession(Store, sessionId))
       /\ lastEvent' = Event("switchSession", NullId, TRUE, <<>>)
  /\ UNCHANGED <<modelConfigs, db, now, send, pathResult>>

IsolationNext ==
  \/ IsolationSwitch
  \/ SendNext

IsolationSpec == IsolationInit /\ [][IsolationNext]_vars

\* C26: the chunk merges, the final update and the new input child of a
\* generation started in session s1 modify only s1: session s2 stays as it
\* was, in memory and in the database, when the user switches while the
\* stream is in flight
C26_StreamingIsolated ==
  /\ sessions[Sid2] = newSession(Sid2)
  /\ db[Sid2] = newSession(Sid2)
  /\ currentSessionId = Sid2 => currentSession = newSession(Sid2)

====
